---- MODULE Spec2Model ----
(***************************************************************************)
(* Identity sessions of backend-horohouse: AuthService (auth.service.ts),   *)
(* JwtStrategy (jwt.strategy.ts) and the session endpoints of               *)
(* AuthController (auth.controller.ts), and the presence registry of        *)
(* NotificationsGateway (notifications.gateway.ts).                         *)
(*                                                                          *)
(* Time is a discrete clock `now`.  A JWT is the record of what its         *)
(* signature covers: the secret it was signed with (kind), the payload      *)
(* (sub, sessionId) and the iat/exp stamps; two tokens signed for the same  *)
(* payload with the same secret at the same instant are the same string.    *)
(* crypto.randomUUID() is a fresh id <<user, n>>.                           *)
(***************************************************************************)
EXTENDS Integers, Sequences, FiniteSets, TLC

\* ---------------------------------------------------------------- bounds
\* Budgets of the exploration profiles (see Profiles).
MaxLogins == 12
DeepOps == 0
DeepTicks == 1
PairLogins == 2
PairOps == 1
WideOps == 1
WideTicks == 1
LongOps == 3
SweepOps == 1
GatewayOps == 2
LateOps == 1
LateTicks == 1
RemovalOps == 1
AdminOps == 2
\* token lifetimes in clock units (JWT_EXPIRATION '15m', JWT_REFRESH_EXPIRATION '7d')
AccessTTL == 1
RefreshTTL == 2
\* long enough for a session to outlive its expiresAt
LongTicks == RefreshTTL + 1

\* ------------------------------------------------------- program constants
MaxSessions == 10

Users == {"u1", "u2"}

NoSid == <<>>
NoUser == "-"
\* a well-formed identity id for which no document exists
UnknownUser == "u0"
NoTok == [kind |-> "none", sub |-> NoUser, sid |-> NoSid, iat |-> 0, exp |-> 0]

VARIABLES
  sessions,   \* user.sessions as persisted, per identity
  nextId,     \* per identity, how many session ids were drawn so far
  now,        \* the clock (Date.now())
  issued,     \* every token the service has returned so far
  loggedOut,  \* ids of sessions removed by AuthService.logout
  budget,     \* the exploration profile: how many logins / other operations /
              \* ticks / gateway events (handshakes and sends) / account
              \* changes may still be explored, whether operations may be
              \* overtaken, whether only refreshes and sweeps are explored,
              \* and from how many logins on
  res,        \* outcome of the last operation
  flight,     \* an operation that has read its identity document and not yet saved
  swept,      \* ids of sessions removed by cleanupExpiredSessions
  revoked,    \* ids of sessions removed by a logout or a termination
  userSockets,   \* NotificationsGateway.userSockets: userId -> set of socket ids
  socketToUser,  \* NotificationsGateway.socketToUser: socket id -> userId
  sockets,    \* every socket that reached the gateway, by client.id, as the
              \* transport and the client see it
  userActive  \* user.isActive as persisted, per identity

presence == <<userSockets, socketToUser, sockets>>

vars == <<sessions, nextId, now, issued, loggedOut, budget, res, flight, swept,
          revoked, userSockets, socketToUser, sockets, userActive>>

\* ------------------------------------------------------------- TokenCodec
Sign(kind, u, sid, t) ==
  [kind |-> kind, sub |-> u, sid |-> sid, iat |-> t,
   exp |-> t + (IF kind = "refresh" THEN RefreshTTL ELSE AccessTTL)]

\* variant: one secret for both kinds of token
Verify_AnySecret(tok, kind, t) == tok.kind \in {"access", "refresh"} /\ t < tok.exp

\* jwtService.verify(token, {secret}): the signature must be made with that
\* secret and the token's exp must not have been reached
Verify(tok, kind, t) == tok.kind = kind /\ t < tok.exp

\* variant: the generator repeats itself
randomUUID_Repeats(u, n) == <<u, 1>>

\* crypto.randomUUID(): the id drawn for identity u after n earlier draws
randomUUID(u, n) == <<u, n + 1>>

\* ----------------------------------------------------------- list helpers
Ids(ss) == {ss[i].id : i \in 1..Len(ss)}

\* Array.prototype.find / findIndex: the first of the indices that satisfy
\* the test, 0 if there is none
FirstIndex(hits) ==
  IF hits = {} THEN 0 ELSE CHOOSE i \in hits : \A j \in hits : i <= j

RECURSIVE InsertDesc(_, _)
InsertDesc(sorted, s) ==
  IF sorted = <<>> THEN <<s>>
  ELSE IF Head(sorted).lastActive >= s.lastActive
       THEN <<Head(sorted)>> \o InsertDesc(Tail(sorted), s)
       ELSE <<s>> \o sorted

\* sessions.sort((a, b) => b.lastActive - a.lastActive): stable, descending
RECURSIVE SortByLastActiveDesc(_)
SortByLastActiveDesc(ss) ==
  IF ss = <<>> THEN <<>>
  ELSE InsertDesc(SortByLastActiveDesc(SubSeq(ss, 1, Len(ss) - 1)), ss[Len(ss)])

\* ------------------------------------------------------------ SessionStore
NewSession(sid, refresh, t) ==
  [id |-> sid, refreshToken |-> refresh, isActive |-> TRUE,
   lastActive |-> t, createdAt |-> t, expiresAt |-> t + RefreshTTL]

\* generateTokens: user.sessions.filter(session => session.expiresAt > now)
PurgeExpired(ss, t) == SelectSeq(ss, LAMBDA s : s.expiresAt > t)

\* variant: the slice keeps one session too many
LimitSessions_OffByOne(ss) ==
  IF Len(ss) > MaxSessions
  THEN SubSeq(SortByLastActiveDesc(ss), 1, MaxSessions + 1)
  ELSE ss

\* generateTokens: if (length > 10) sort by lastActive descending, slice(0, 10)
LimitSessions(ss) ==
  IF Len(ss) > MaxSessions
  THEN SubSeq(SortByLastActiveDesc(ss), 1, MaxSessions)
  ELSE ss

\* generateTokens without existingSessionId: push, purge, limit
AddSession(ss, new, t) == LimitSessions(PurgeExpired(Append(ss, new), t))

\* variant: the new refresh token is not stored in the session
RotateSession_NotStored(ss, sid, refresh, t) ==
  LET idx == FirstIndex({i \in 1..Len(ss) : ss[i].id = sid})
  IN IF idx # 0
     THEN [ss EXCEPT ![idx].lastActive = t]
     ELSE ss

\* variant: every refresh stores its token in a session of its own
RotateSession_PerRequest(ss, sid, refresh, t) ==
  Append(ss, NewSession(<<sid[1], sid[2] + 100>>, refresh, t))

\* variant: the refresh also moves the session's expiresAt
RotateSession_Slides(ss, sid, refresh, t) ==
  LET idx == FirstIndex({i \in 1..Len(ss) : ss[i].id = sid})
  IN IF idx # 0
     THEN [ss EXCEPT ![idx].refreshToken = refresh, ![idx].lastActive = t,
                     ![idx].expiresAt = t + RefreshTTL]
     ELSE ss

\* generateTokens with existingSessionId: store the new refresh token in place
RotateSession(ss, sid, refresh, t) ==
  LET idx == FirstIndex({i \in 1..Len(ss) : ss[i].id = sid})
  IN IF idx # 0
     THEN [ss EXCEPT ![idx].refreshToken = refresh, ![idx].lastActive = t]
     ELSE ss

\* refreshToken: the session a presented refresh token selects (0: none)
FindRefreshSession(ss, tok) ==
  LET byId == IF tok.sid # NoSid
              THEN FirstIndex({i \in 1..Len(ss) : ss[i].id = tok.sid /\ ss[i].isActive})
              ELSE 0
  IN IF byId # 0 THEN byId
     ELSE FirstIndex({i \in 1..Len(ss) : ss[i].refreshToken = tok /\ ss[i].isActive})

\* variant: isActive is not looked at
FindUsable_IgnoresActive(act, u) == u \in Users

\* const user = await this.userModel.findById(id);
\* if (!user || !user.isActive) throw new UnauthorizedException(...)
FindUsable(act, u) == u \in Users /\ act[u]

\* variant: the expiresAt check is missing
ValidateUser_NoExpiry(ss, u, sid, t) ==
  /\ FindUsable(userActive, u)
  /\ FirstIndex({i \in 1..Len(ss) : ss[i].id = sid /\ ss[i].isActive}) # 0

\* validateUser(payload): the identity exists and is active, and the
\* referenced session is present, active and not past its expiresAt
ValidateUser(ss, u, sid, t) ==
  /\ FindUsable(userActive, u)
  /\ LET idx == FirstIndex({i \in 1..Len(ss) : ss[i].id = sid /\ ss[i].isActive})
     IN idx # 0 /\ ~(ss[idx].expiresAt < t)

\* variant: validateUser purges the list the way getUserSessions does
ValidateUserSaves_Purges(ss, t) == SelectSeq(ss, LAMBDA s : s.isActive /\ s.expiresAt > t)

\* validateUser(payload): the list it leaves persisted; it has no save
ValidateUserSaves(ss, t) == ss

\* variant: the filter keeps the session it should drop
LogoutSessions_Inverted(ss, sid) ==
  IF sid # NoSid THEN SelectSeq(ss, LAMBDA s : s.id = sid) ELSE <<>>

\* logout(userId, sessionId?): the list it saves
LogoutSessions(ss, sid) ==
  IF sid # NoSid THEN SelectSeq(ss, LAMBDA s : s.id # sid) ELSE <<>>

\* variant: the catch block passes the error on
LogoutCatch_Rethrow(err) == err

\* logout: catch (error) { this.logger.error('Logout failed:', error) }; the
\* error that reaches the caller ("none": the call returns normally)
LogoutCatch(err) == "none"

\* the sessions a logout(userId, sessionId?) call is asked to end
LogoutTargets(ss, sid) == IF sid # NoSid THEN {sid} \cap Ids(ss) ELSE Ids(ss)

\* variant: the filter drops every session once the id is found
TerminateFilter_Clears(ss, sid) == IF sid \in Ids(ss) THEN <<>> ELSE ss

\* terminateSession: the list after the filter
TerminateFilter(ss, sid) == SelectSeq(ss, LAMBDA s : s.id # sid)

\* variant: the filter drops the session it should keep
TerminateAllFilter_Inverted(ss, keep) ==
  IF keep # NoSid THEN SelectSeq(ss, LAMBDA s : s.id # keep) ELSE <<>>

\* terminateAllSessions(user, currentSessionId?): the list it saves
TerminateAllFilter(ss, keep) ==
  IF keep # NoSid THEN SelectSeq(ss, LAMBDA s : s.id = keep) ELSE <<>>

\* getUserSessions: sessions that are active and not expired
ActiveSessions(ss, t) == SelectSeq(ss, LAMBDA s : s.isActive /\ s.expiresAt > t)

\* variant: the sweep also pulls the sessions that expire at this instant
PullExpired_Inclusive(ss, t) == SelectSeq(ss, LAMBDA s : ~(s.expiresAt <= t))

\* cleanupExpiredSessions: $pull { sessions: { expiresAt: { $lt: now } } }
PullExpired(ss, t) == SelectSeq(ss, LAMBDA s : ~(s.expiresAt < t))

\* variant: the transform leaves the sessions as they are
toJSON_KeepsToken(ss) == ss

\* UserSchema toJSON transform, sessions part: every session without its
\* refreshToken property
toJSON(ss) ==
  [i \in 1..Len(ss) |-> [f \in DOMAIN ss[i] \ {"refreshToken"} |-> ss[i][f]]]

\* variant: the plain sessions are returned as they are
PlainSessions_KeepsToken(ss) == ss

\* getUserSessions: plainSessions.map(s => ({...s, refreshToken: undefined}))
PlainSessions(ss) == [i \in 1..Len(ss) |-> [ss[i] EXCEPT !.refreshToken = NoTok]]

\* variant: the expired session is left in the list
RemoveExpiredSession_Keeps(ss, sid) == ss

\* refreshToken, expired branch: user.sessions.filter(s => s.id !== session.id)
RemoveExpiredSession(ss, sid) == SelectSeq(ss, LAMBDA s : s.id # sid)

\* refreshToken(refreshToken): outcome and the list it leaves persisted
RefreshResult(ss, tok, t) ==
  LET fail(list) == [ok |-> FALSE, list |-> list, access |-> NoTok, refresh |-> NoTok]
  IN IF ~Verify(tok, "refresh", t) \/ ~FindUsable(userActive, tok.sub) THEN fail(ss)
     ELSE LET idx == FindRefreshSession(ss, tok)
          IN IF idx = 0 THEN fail(ss)
             ELSE IF ss[idx].expiresAt < t
                  THEN fail(RemoveExpiredSession(ss, ss[idx].id))
                  ELSE LET sid == ss[idx].id
                           touched == [ss EXCEPT ![idx].lastActive = t]
                           refresh == Sign("refresh", tok.sub, sid, t)
                       IN [ok |-> TRUE,
                           list |-> RotateSession(touched, sid, refresh, t),
                           access |-> Sign("access", tok.sub, sid, t),
                           refresh |-> refresh]

\* ---------------------------------------------------------------- AuthGuard
\* JwtStrategy.validate: what is attached to the request as req.user
NormalizedUser(tok) ==
  [userId |-> tok.sub, _id |-> tok.sub, id |-> tok.sub, sub |-> tok.sub,
   sessionId |-> tok.sid]

\* passport-jwt with JWT_SECRET, then JwtStrategy.validate -> validateUser
Authenticated(ss, tok, t) ==
  Verify(tok, "access", t) /\ ValidateUser(ss, tok.sub, tok.sid, t)

\* req.user when no identity is attached (null)
NoIdentity ==
  [userId |-> NoUser, _id |-> NoUser, id |-> NoUser, sub |-> NoUser,
   sessionId |-> NoSid]

\* variant: validate does not call validateUser
StrategyOutcome_NoValidate(ss, tok, t) ==
  IF tok = NoTok \/ ~Verify(tok, "access", t)
  THEN [err |-> "none", user |-> NoIdentity]
  ELSE [err |-> "none", user |-> NormalizedUser(tok)]

\* passport-jwt (bearer token of the Authorization header, JWT_SECRET,
\* ignoreExpiration false) and then JwtStrategy.validate: the (err, user) pair
\* that reaches handleRequest.  A missing token or one that does not verify
\* is a failure without error; what validate throws is the error.
StrategyOutcome(ss, tok, t) ==
  IF tok = NoTok \/ ~Verify(tok, "access", t)
  THEN [err |-> "none", user |-> NoIdentity]
  ELSE IF ~ValidateUser(ss, tok.sub, tok.sid, t)
       THEN [err |-> "Invalid token", user |-> NoIdentity]
       ELSE [err |-> "none", user |-> NormalizedUser(tok)]

\* variant: the public branch throws like the protected one
handleRequest_PublicThrows(err, user, isPublic) ==
  IF err # "none" \/ user = NoIdentity
  THEN [status |-> "Unauthorized",
        message |-> IF err # "none" THEN err ELSE "Access token required",
        user |-> NoIdentity]
  ELSE [status |-> "continue", message |-> "", user |-> user]

\* JwtAuthGuard.handleRequest(err, user, info, context): what the request
\* goes on with ("continue": the handler runs with req.user = user) or the
\* UnauthorizedException that ends it
handleRequest(err, user, isPublic) ==
  IF isPublic
  THEN [status |-> "continue", message |-> "",
        user |-> IF err # "none" \/ user = NoIdentity THEN NoIdentity ELSE user]
  ELSE IF err # "none" \/ user = NoIdentity
       THEN [status |-> "Unauthorized",
             message |-> IF err # "none" THEN err ELSE "Access token required",
             user |-> NoIdentity]
       ELSE [status |-> "continue", message |-> "", user |-> user]

\* JwtAuthGuard.canActivate on a request that carries tok
Guard(ss, tok, t, isPublic) ==
  LET o == StrategyOutcome(ss, tok, t)
  IN handleRequest(o.err, o.user, isPublic)

NoGuard == [status |-> "none", message |-> "", user |-> NoIdentity]

\* AuthController.logout: the arguments it passes to AuthService.logout
LogoutArgs(reqUser) ==
  IF "_id" \in DOMAIN reqUser
  THEN [userId |-> reqUser._id, sessionId |-> NoSid]
  ELSE [userId |-> reqUser.sub, sessionId |-> reqUser.sessionId]

\* AuthController.terminateAllSessions: req.user.sessions?.[0]?.id
CurrentSessionId(reqUser) ==
  IF "sessions" \in DOMAIN reqUser
  THEN (IF Len(reqUser.sessions) > 0 THEN reqUser.sessions[1].id ELSE NoSid)
  ELSE NoSid

\* -------------------------------------------------------- PresenceRegistry
\* Map.has / Map.get / Map.set / Map.delete on a map held as a function
\* whose domain is the set of keys
MapSet(m, k, v) == [x \in DOMAIN m \cup {k} |-> IF x = k THEN v ELSE m[x]]
MapDelete(m, k) == [x \in DOMAIN m \ {k} |-> m[x]]

\* socket.io gives every socket its own client.id
ClientId(n) == <<"socket", n>>

\* variant: the reverse entry is not recorded
Register_NoReverse(us, stu, u, c) ==
  [userSockets |-> MapSet(us, u, (IF u \in DOMAIN us THEN us[u] ELSE {}) \cup {c}),
   socketToUser |-> stu]

\* handleConnection: track the socket under its identity, in both maps
Register(us, stu, u, c) ==
  [userSockets |-> MapSet(us, u, (IF u \in DOMAIN us THEN us[u] ELSE {}) \cup {c}),
   socketToUser |-> MapSet(stu, c, u)]

\* variant: an identity's emptied set is left in the map
RemoveFromUserSet_KeepsEmpty(us, u, c) ==
  IF u \in DOMAIN us
  THEN MapSet(us, u, us[u] \ {c})
  ELSE us

\* handleDisconnect: delete the socket from its identity's set, and the
\* identity's entry when the set becomes empty
RemoveFromUserSet(us, u, c) ==
  IF u \in DOMAIN us
  THEN (IF us[u] \ {c} = {} THEN MapDelete(us, u) ELSE MapSet(us, u, us[u] \ {c}))
  ELSE us

\* variant: the reverse entry is left behind
Unregister_KeepsReverse(us, stu, c) ==
  IF c \in DOMAIN stu
  THEN [userSockets |-> RemoveFromUserSet(us, stu[c], c), socketToUser |-> stu]
  ELSE [userSockets |-> us, socketToUser |-> stu]

\* handleDisconnect: both maps after the disconnect of socket c
Unregister(us, stu, c) ==
  IF c \in DOMAIN stu
  THEN [userSockets |-> RemoveFromUserSet(us, stu[c], c),
        socketToUser |-> MapDelete(stu, c)]
  ELSE [userSockets |-> us, socketToUser |-> stu]

isUserConnected(us, u) == u \in DOMAIN us /\ Cardinality(us[u]) > 0

\* this.userSockets.get(userId)?.size || 0
getUserConnectionCount(us, u) == IF u \in DOMAIN us THEN Cardinality(us[u]) ELSE 0

getConnectedUserIds(us) == DOMAIN us

\* an access token whose payload carries no sub
NoSubTok == [kind |-> "access", sub |-> NoUser, sid |-> NoSid, iat |-> 0,
             exp |-> AccessTTL]

\* variant: the token is decoded without being verified
HandshakeError_NoVerify(tok, t) ==
  IF tok = NoTok THEN "Authentication required"
  ELSE IF tok.sub = NoUser THEN "Invalid token payload"
  ELSE "none"

\* handleConnection: the message of the error event that answers the
\* handshake, "none" when the connection is accepted
HandshakeError(tok, t) ==
  IF tok = NoTok THEN "Authentication required"
  ELSE IF ~Verify(tok, "access", t) THEN "Invalid or expired token"
  ELSE IF tok.sub = NoUser THEN "Invalid token payload"
  ELSE "none"

NoRole == ""

\* user.role as generateTokens copies it into the payload; the schema gives
\* every identity a role (default registered_user)
RoleOf(u) == IF u = "u1" THEN "agent" ELSE "registered_user"

\* payload.role of a token
TokenRole(tok) == IF tok.sub \in Users THEN RoleOf(tok.sub) ELSE NoRole

\* handleConnection: client.join(`user:${userId}`) and, if (role),
\* client.join(`role:${role}`)
Rooms(tok) ==
  {<<"user", tok.sub>>}
    \cup (IF TokenRole(tok) # NoRole THEN {<<"role", TokenRole(tok)>>} ELSE {})

\* variant: the count is taken before the socket is registered
ConnectedAck_BeforeRegister(us, u, c) ==
  [userId |-> u, socketId |-> c, activeConnections |-> Cardinality(us[u] \ {c})]

\* handleConnection: the payload of the 'connected' event, read from the
\* registry after the socket was registered
ConnectedAck(us, u, c) ==
  [userId |-> u, socketId |-> c, activeConnections |-> Cardinality(us[u])]

\* variant: the emit is not guarded by the connection count
ShouldEmit_Always(us, u) == getUserConnectionCount(us, u) >= 0

\* sendNotificationToUser: if (connectionCount > 0) emit
ShouldEmit(us, u) == getUserConnectionCount(us, u) > 0

\* ------------------------------------------------------------------ state
Profiles ==
  { \* deep: logins and the clock, up to and past the ceiling
    [logins |-> [u \in Users |-> IF u = "u1" THEN MaxLogins ELSE 0],
     ops |-> 0, ticks |-> DeepTicks, overlap |-> FALSE, conns |-> 0, admin |-> 0, narrow |-> FALSE, warm |-> 0],
    \* deep, with operations that may be overtaken, from the ceiling on
    [logins |-> [u \in Users |-> IF u = "u1" THEN MaxLogins ELSE 0],
     ops |-> DeepOps, ticks |-> 0, overlap |-> TRUE, conns |-> 0,
     admin |-> 0, narrow |-> FALSE, warm |-> MaxSessions],
    \* pair: two sessions of one identity, operations may be overtaken
    [logins |-> [u \in Users |-> IF u = "u1" THEN PairLogins ELSE 0],
     ops |-> PairOps, ticks |-> 1, overlap |-> TRUE, conns |-> 0, admin |-> 0, narrow |-> FALSE, warm |-> 0],
    \* wide: two identities
    [logins |-> [u \in Users |-> 1],
     ops |-> WideOps, ticks |-> WideTicks, overlap |-> FALSE, conns |-> 0, admin |-> 0, narrow |-> FALSE, warm |-> 0],
    \* long: one session followed past its expiry
    [logins |-> [u \in Users |-> IF u = "u1" THEN 1 ELSE 0],
     ops |-> LongOps, ticks |-> LongTicks, overlap |-> FALSE, conns |-> 0, admin |-> 0, narrow |-> FALSE, warm |-> 0],
    \* sweep: two identities followed past an expiry
    [logins |-> [u \in Users |-> 1],
     ops |-> SweepOps, ticks |-> LongTicks, overlap |-> FALSE, conns |-> 0, admin |-> 0, narrow |-> FALSE, warm |-> 0],
    \* gateway: sockets of two identities
    [logins |-> [u \in Users |-> 1],
     ops |-> 0, ticks |-> 0, overlap |-> FALSE, conns |-> GatewayOps, admin |-> 0, narrow |-> FALSE, warm |-> 0],
    \* late socket: one socket of an identity whose session is refreshed,
    \* ended or outlived meanwhile
    [logins |-> [u \in Users |-> IF u = "u1" THEN 1 ELSE 0],
     ops |-> LateOps, ticks |-> LateTicks, overlap |-> FALSE, conns |-> 1, admin |-> 0, narrow |-> FALSE, warm |-> 0],
    \* removal: an identity that is deactivated, and reactivated, while it
    \* holds a session
    [logins |-> [u \in Users |-> IF u = "u1" THEN 1 ELSE 0],
     ops |-> RemovalOps, ticks |-> 1, overlap |-> FALSE, conns |-> 0,
     admin |-> AdminOps, narrow |-> FALSE, warm |-> 0],
    \* race: three sessions of one identity followed past an expiry, with
    \* three operations, refreshes and sweeps only, which may overtake a
    \* login or a refresh
    [logins |-> [u \in Users |-> IF u = "u1" THEN 3 ELSE 0],
     ops |-> 3, ticks |-> LongTicks, overlap |-> TRUE, conns |-> 0,
     admin |-> 0, narrow |-> TRUE, warm |-> 3] }

NoRes == [op |-> "none", user |-> NoUser, sid |-> NoSid, ok |-> FALSE,
          access |-> NoTok, refresh |-> NoTok, used |-> NoTok,
          guard |-> NoGuard, body |-> <<>>]

Res(op, u, sid, ok, access, refresh, used) ==
  [op |-> op, user |-> u, sid |-> sid, ok |-> ok,
   access |-> access, refresh |-> refresh, used |-> used,
   guard |-> NoGuard, body |-> <<>>]

\* the persisted list of an identity, none for an id without a document
SessionsOf(u) == IF u \in Users THEN sessions[u] ELSE <<>>

NoFlight == [op |-> "none", user |-> NoUser, doc |-> <<>>, stale |-> FALSE,
             arg |-> NoSid, tok |-> NoTok]

Init ==
  /\ sessions = [u \in Users |-> <<>>]
  /\ nextId = [u \in Users |-> 0]
  /\ now = 0
  /\ issued = {}
  /\ loggedOut = {}
  /\ budget \in Profiles
  /\ res = NoRes
  /\ flight = NoFlight
  /\ swept = {}
  /\ revoked = {}
  /\ userSockets = <<>>
  /\ socketToUser = <<>>
  /\ sockets = <<>>
  /\ userActive = [u \in Users |-> TRUE]

\* a profile may leave the operations other than login out until an identity
\* has logged in budget.warm times
Warm == \E u \in Users : nextId[u] >= budget.warm

SpendOp == budget.ops > 0 /\ Warm /\ budget' = [budget EXCEPT !.ops = @ - 1]

\* a narrow profile explores logins, refreshToken and the sweep only
SpendWideOp == ~budget.narrow /\ SpendOp

\* variant: documents carry no version
VersionBump_Never(old, new) == FALSE

\* whether a save that assigns the sessions array increments the document
\* version: it does when the assigned array differs from the one loaded
VersionBump(old, new) == new # old

\* variant: the write is not limited to the document that was loaded
Save_EveryDocument(u, list) ==
  /\ sessions' = [v \in Users |-> list]
  /\ flight' = IF flight.op # "none" /\ flight.user = u /\ VersionBump(sessions[u], list)
               THEN [flight EXCEPT !.stale = TRUE]
               ELSE flight

\* user.save() after assigning the sessions array: the write carries the
\* document version and increments it, so a document read before this write
\* can no longer be saved
Save(u, list) ==
  /\ sessions' = [sessions EXCEPT ![u] = list]
  /\ flight' = IF flight.op # "none" /\ flight.user = u /\ VersionBump(sessions[u], list)
               THEN [flight EXCEPT !.stale = TRUE]
               ELSE flight

KnownSids == {tok.sid : tok \in issued}

\* the session ids a step takes out of the persisted lists
Removed == UNION {Ids(sessions[u]) \ Ids(sessions'[u]) : u \in Users}

\* ------------------------------------------------------------- operations
\* registerWithPhone / registerWithEmail / loginWithPhone / loginWithEmail /
\* googleAuth: all end in generateTokens(user, req)
Login(u) ==
  /\ budget.logins[u] > 0
  /\ LET sid == randomUUID(u, nextId[u])
         access == Sign("access", u, sid, now)
         refresh == Sign("refresh", u, sid, now)
         new == NewSession(sid, refresh, now)
     IN \* sessions.push(newSession) already makes the loaded array differ, so
        \* the save is sent even when the list it leaves equals the one loaded
        /\ sessions' = [sessions EXCEPT ![u] = AddSession(@, new, now)]
        /\ flight' = IF /\ flight.op # "none" /\ flight.user = u
                        /\ VersionBump(sessions[u], Append(sessions[u], new))
                     THEN [flight EXCEPT !.stale = TRUE]
                     ELSE flight
        /\ issued' = issued \cup {access, refresh}
        /\ res' = [Res("login", u, sid, TRUE, access, refresh, NoTok)
                     EXCEPT !.body = toJSON(AddSession(sessions[u], new, now))]
  /\ nextId' = [nextId EXCEPT ![u] = @ + 1]
  /\ budget' = [budget EXCEPT !.logins[u] = @ - 1]
  /\ UNCHANGED <<now, loggedOut>>
  /\ UNCHANGED <<swept, revoked, userSockets, socketToUser, sockets, userActive>>

\* POST auth/refresh -> refreshToken(refreshToken)
RefreshToken(tok) ==
  /\ SpendOp
  /\ LET r == RefreshResult(sessions[tok.sub], tok, now)
     IN /\ sessions' = [sessions EXCEPT ![tok.sub] = r.list]
        /\ flight' = IF flight.op # "none" /\ flight.user = tok.sub /\ ~r.ok
                         /\ VersionBump(sessions[tok.sub], r.list)
                     THEN [flight EXCEPT !.stale = TRUE]
                     ELSE flight
        /\ issued' = IF r.ok THEN issued \cup {r.access, r.refresh} ELSE issued
        /\ res' = [Res("refresh", tok.sub, IF r.ok THEN r.access.sid ELSE tok.sid,
                       r.ok, r.access, r.refresh, tok)
                     EXCEPT !.body = IF r.ok THEN toJSON(r.list) ELSE <<>>]
  /\ UNCHANGED <<nextId, now, loggedOut>>
  /\ UNCHANGED <<swept, revoked, userSockets, socketToUser, sockets, userActive>>

\* a request that passes JwtAuthGuard, on a protected route or on one marked
\* @Public(): passport-jwt, JwtStrategy.validate, handleRequest; res.ok: an
\* identity is attached to the request
Authenticate(tok, isPublic) ==
  /\ SpendWideOp
  /\ LET g == Guard(SessionsOf(tok.sub), tok, now, isPublic)
     IN res' = [Res(IF isPublic THEN "validateOptional" ELSE "validate",
                    tok.sub, tok.sid,
                    g.status = "continue" /\ g.user # NoIdentity, NoTok, NoTok, tok)
                  EXCEPT !.guard = g]
  /\ sessions' = IF Verify(tok, "access", now) /\ tok.sub \in Users
                 THEN [sessions EXCEPT ![tok.sub] = ValidateUserSaves(@, now)]
                 ELSE sessions
  /\ UNCHANGED <<nextId, now, issued, loggedOut, flight>>
  /\ UNCHANGED <<swept, revoked, userSockets, socketToUser, sockets, userActive>>

\* AuthService.logout(userId, sessionId?)
Logout(u, sid) ==
  /\ SpendWideOp
  /\ IF u \in Users
     THEN /\ Save(u, LogoutSessions(sessions[u], sid))
          /\ loggedOut' = loggedOut \cup LogoutTargets(sessions[u], sid)
          /\ res' = Res("logout", u, sid, LogoutCatch("none") = "none",
                        NoTok, NoTok, NoTok)
     ELSE \* findById returns null: NotFoundException inside the try block
          /\ res' = Res("logout", u, sid, LogoutCatch("NotFound") = "none",
                        NoTok, NoTok, NoTok)
          /\ UNCHANGED <<sessions, loggedOut, flight>>
  /\ UNCHANGED <<nextId, now, issued>>
  /\ revoked' = revoked \cup Removed
  /\ UNCHANGED <<swept, userSockets, socketToUser, sockets, userActive>>

\* POST auth/logout behind JwtAuthGuard
LogoutEndpoint(tok) ==
  /\ SpendWideOp
  /\ IF Authenticated(sessions[tok.sub], tok, now)
     THEN LET args == LogoutArgs(NormalizedUser(tok))
              list == LogoutSessions(sessions[args.userId], args.sessionId)
          IN /\ Save(args.userId, list)
             /\ loggedOut' = loggedOut \cup LogoutTargets(sessions[args.userId], args.sessionId)
             /\ res' = Res("logoutEndpoint", tok.sub, tok.sid, TRUE, NoTok, NoTok, tok)
     ELSE /\ res' = Res("logoutEndpoint", tok.sub, tok.sid, FALSE, NoTok, NoTok, tok)
          /\ UNCHANGED <<sessions, loggedOut, flight>>
  /\ UNCHANGED <<nextId, now, issued>>
  /\ revoked' = revoked \cup Removed
  /\ UNCHANGED <<swept, userSockets, socketToUser, sockets, userActive>>

\* AuthService.getUserSessions(user)
GetUserSessions(u) ==
  /\ SpendWideOp
  /\ LET active == ActiveSessions(sessions[u], now)
     IN IF Len(active) # Len(sessions[u])
        THEN Save(u, active)
        ELSE UNCHANGED <<sessions, flight>>
  /\ res' = [Res("getUserSessions", u, NoSid, TRUE, NoTok, NoTok, NoTok)
               EXCEPT !.body = PlainSessions(ActiveSessions(sessions[u], now))]
  /\ UNCHANGED <<nextId, now, issued, loggedOut>>
  /\ UNCHANGED <<swept, revoked, userSockets, socketToUser, sockets, userActive>>

\* AuthService.terminateSession(user, sessionId)
TerminateSession(u, sid) ==
  /\ SpendWideOp
  /\ LET list == TerminateFilter(sessions[u], sid)
     IN IF Len(list) = Len(sessions[u])
        THEN /\ res' = Res("terminateSession", u, sid, FALSE, NoTok, NoTok, NoTok)
             /\ UNCHANGED <<sessions, flight>>
        ELSE /\ Save(u, list)
             /\ res' = Res("terminateSession", u, sid, TRUE, NoTok, NoTok, NoTok)
  /\ UNCHANGED <<nextId, now, issued, loggedOut>>
  /\ revoked' = revoked \cup Removed
  /\ UNCHANGED <<swept, userSockets, socketToUser, sockets, userActive>>

\* AuthService.terminateAllSessions(user, currentSessionId?)
TerminateAllSessions(u, keep) ==
  /\ SpendWideOp
  /\ Save(u, TerminateAllFilter(sessions[u], keep))
  /\ res' = Res("terminateAllSessions", u, keep, TRUE, NoTok, NoTok, NoTok)
  /\ UNCHANGED <<nextId, now, issued, loggedOut>>
  /\ revoked' = revoked \cup Removed
  /\ UNCHANGED <<swept, userSockets, socketToUser, sockets, userActive>>

\* DELETE auth/sessions/all behind JwtAuthGuard
TerminateAllEndpoint(tok) ==
  /\ SpendWideOp
  /\ IF Authenticated(sessions[tok.sub], tok, now)
     THEN LET reqUser == NormalizedUser(tok)
          IN /\ Save(reqUser._id, TerminateAllFilter(sessions[reqUser._id], CurrentSessionId(reqUser)))
             /\ res' = Res("terminateAllEndpoint", tok.sub, tok.sid, TRUE, NoTok, NoTok, tok)
     ELSE /\ res' = Res("terminateAllEndpoint", tok.sub, tok.sid, FALSE, NoTok, NoTok, tok)
          /\ UNCHANGED <<sessions, flight>>
  /\ UNCHANGED <<nextId, now, issued, loggedOut>>
  /\ revoked' = revoked \cup Removed
  /\ UNCHANGED <<swept, userSockets, socketToUser, sockets, userActive>>

\* AuthService.cleanupExpiredSessions(): updateMany with $pull, no versioning
CleanupExpiredSessions ==
  /\ SpendOp
  /\ sessions' = [u \in Users |-> PullExpired(sessions[u], now)]
  /\ swept' = swept \cup UNION {Ids(sessions[u]) \ Ids(PullExpired(sessions[u], now)) : u \in Users}
  /\ res' = Res("cleanupExpiredSessions", NoUser, NoSid, TRUE, NoTok, NoTok, NoTok)
  /\ UNCHANGED <<nextId, now, issued, loggedOut, flight, revoked, presence, userActive>>

\* a socket reaches the gateway with the token of its handshake
handleConnection(tok) ==
  /\ budget.conns > 0
  /\ budget' = [budget EXCEPT !.conns = @ - 1]
  /\ LET c == ClientId(Len(sockets) + 1)
         err == HandshakeError(tok, now)
         reg == Register(userSockets, socketToUser, tok.sub, c)
     IN IF err # "none"
        THEN \* client.emit('error', ...); client.disconnect(); return
             /\ sockets' = Append(sockets,
                   [id |-> c, token |-> tok, user |-> NoUser, state |-> "rejected",
                    event |-> "error", message |-> err, activeConnections |-> 0,
                    rooms |-> {}])
             /\ UNCHANGED <<userSockets, socketToUser>>
        ELSE /\ userSockets' = reg.userSockets
             /\ socketToUser' = reg.socketToUser
             /\ sockets' = Append(sockets,
                   [id |-> c, token |-> tok,
                    user |-> ConnectedAck(reg.userSockets, tok.sub, c).userId,
                    state |-> "accepted", event |-> "connected", message |-> "",
                    activeConnections |->
                      ConnectedAck(reg.userSockets, tok.sub, c).activeConnections,
                    rooms |-> Rooms(tok)])
  /\ res' = Res("handleConnection", tok.sub, tok.sid,
                HandshakeError(tok, now) = "none", NoTok, NoTok, tok)
  /\ UNCHANGED <<sessions, nextId, now, issued, loggedOut, flight, swept, revoked, userActive>>

\* the disconnect of socket number n (client close, network failure, or
\* the server's own client.disconnect()) is handled, once per socket
handleDisconnect(n) ==
  /\ sockets[n].state \in {"accepted", "rejected"}
  /\ LET un == Unregister(userSockets, socketToUser, sockets[n].id)
     IN /\ userSockets' = un.userSockets
        /\ socketToUser' = un.socketToUser
  /\ sockets' = [sockets EXCEPT ![n].state = "closed"]
  /\ res' = Res("handleDisconnect", sockets[n].user, NoSid, TRUE, NoTok, NoTok,
                sockets[n].token)
  /\ UNCHANGED <<sessions, nextId, now, issued, loggedOut, flight, swept, revoked, budget,
               userActive>>

\* sendNotificationToUser(userId, notification); res.ok: the event was emitted
sendNotificationToUser(u) ==
  /\ budget.conns > 0
  /\ budget' = [budget EXCEPT !.conns = @ - 1]
  /\ res' = Res("sendNotificationToUser", u, NoSid, ShouldEmit(userSockets, u),
                NoTok, NoTok, NoTok)
  /\ UNCHANGED <<sessions, nextId, now, issued, loggedOut, flight, swept, revoked, presence,
               userActive>>

\* UsersService.remove(id): updateOne({ _id: id }, { isActive: false });
\* res.ok: a document matched
remove(u) ==
  /\ budget.admin > 0
  /\ budget' = [budget EXCEPT !.admin = @ - 1]
  /\ userActive' = IF u \in Users THEN [userActive EXCEPT ![u] = FALSE] ELSE userActive
  /\ res' = Res("remove", u, NoSid, u \in Users, NoTok, NoTok, NoTok)
  /\ UNCHANGED <<sessions, nextId, now, issued, loggedOut, flight, swept, revoked, presence>>

\* UsersService.update(id, { isActive }): findByIdAndUpdate(id, updateUserDto)
update(u, isActive) ==
  /\ budget.admin > 0
  /\ budget' = [budget EXCEPT !.admin = @ - 1]
  /\ userActive' = IF u \in Users THEN [userActive EXCEPT ![u] = isActive] ELSE userActive
  /\ res' = Res("update", u, NoSid, u \in Users, NoTok, NoTok, NoTok)
  /\ UNCHANGED <<sessions, nextId, now, issued, loggedOut, flight, swept, revoked, presence>>

\* the clock advances
Tick ==
  /\ budget.ticks > 0
  /\ now' = now + 1
  /\ budget' = [budget EXCEPT !.ticks = @ - 1]
  /\ res' = NoRes
  /\ UNCHANGED <<sessions, nextId, issued, loggedOut, flight>>
  /\ UNCHANGED <<swept, revoked, userSockets, socketToUser, sockets, userActive>>

Next ==
  \/ \E u \in Users : Login(u)
  \/ \E tok \in issued : RefreshToken(tok)
  \/ \E tok \in issued \cup {NoTok}, isPublic \in BOOLEAN : Authenticate(tok, isPublic)
  \/ \E u \in Users \cup {UnknownUser}, sid \in KnownSids \cup {NoSid} : Logout(u, sid)
  \/ \E tok \in issued : LogoutEndpoint(tok)
  \/ \E u \in Users : GetUserSessions(u)
  \/ \E u \in Users, sid \in KnownSids : TerminateSession(u, sid)
  \/ \E u \in Users, keep \in KnownSids \cup {NoSid} : TerminateAllSessions(u, keep)
  \/ \E tok \in issued : TerminateAllEndpoint(tok)
  \/ CleanupExpiredSessions
  \/ \E tok \in issued \cup {NoTok, NoSubTok} : handleConnection(tok)
  \/ \E n \in 1..Len(sockets) : handleDisconnect(n)
  \/ \E u \in Users : sendNotificationToUser(u)
  \/ \E u \in Users \cup {UnknownUser} : remove(u)
  \/ \E u \in Users, isActive \in BOOLEAN : update(u, isActive)
  \/ Tick

Spec == Init /\ [][Next]_vars

\* --------------------------------------------------- overlapping operations
\* An operation that loads the identity (findById / findOne), is overtaken by
\* other requests, and then saves the list computed from the document it read.
FlightOps == {"login", "logout", "terminateSession", "terminateAllSessions",
              "getUserSessions", "refresh"}

\* the read: userModel.findById(userId) / findOne(...); a refreshToken call
\* gets this far only with a token that verifies
Begin(op, u, arg, tok) ==
  /\ flight.op = "none"
  /\ budget.overlap /\ Warm
  /\ budget.narrow => op \in {"login", "refresh"}
  /\ op = "refresh" => Verify(tok, "refresh", now) /\ tok.sub = u
  /\ IF op = "login" THEN budget.logins[u] > 0 ELSE budget.ops > 0
  /\ budget' = IF op = "login"
                THEN [budget EXCEPT !.logins[u] = @ - 1]
                ELSE [budget EXCEPT !.ops = @ - 1]
  /\ flight' = [op |-> op, user |-> u, doc |-> sessions[u], stale |-> FALSE,
                arg |-> arg, tok |-> tok]
  /\ res' = NoRes
  /\ UNCHANGED <<sessions, nextId, now, issued, loggedOut>>
  /\ UNCHANGED <<swept, revoked, userSockets, socketToUser, sockets, userActive>>

\* the list the overtaken operation computes from the document it read
FlightList(f, new, t) ==
  CASE f.op = "login" -> AddSession(f.doc, new, t)
    [] f.op = "logout" -> LogoutSessions(f.doc, f.arg)
    [] f.op = "terminateSession" -> TerminateFilter(f.doc, f.arg)
    [] f.op = "terminateAllSessions" -> TerminateAllFilter(f.doc, f.arg)
    [] f.op = "refresh" -> RefreshResult(f.doc, f.tok, t).list
    [] OTHER -> ActiveSessions(f.doc, t)

\* variant: the save writes the session as a new element
ElementWrite_Push(stored, idx, refresh, t) ==
  IF idx <= Len(stored)
  THEN Append(stored, [stored[idx] EXCEPT !.refreshToken = refresh, !.lastActive = t])
  ELSE Append(stored, [id |-> NoSid, refreshToken |-> refresh, isActive |-> TRUE,
                       lastActive |-> t, createdAt |-> t, expiresAt |-> 0])

\* a save after session.lastActive = ... / sessions[i].refreshToken = ...:
\* $set of sessions.<i>.lastActive and sessions.<i>.refreshToken on the stored
\* array, by position; a position past the end of the stored array makes the
\* store append an element that holds these two fields only
ElementWrite(stored, idx, refresh, t) ==
  IF idx <= Len(stored)
  THEN [stored EXCEPT ![idx].refreshToken = refresh, ![idx].lastActive = t]
  ELSE Append(stored, [id |-> NoSid, refreshToken |-> refresh, isActive |-> TRUE,
                       lastActive |-> t, createdAt |-> t, expiresAt |-> 0])

\* the write: user.save(); it is refused (VersionError) when the document was
\* saved with a changed sessions array since the read, and it sends nothing
\* when the operation left the array as it was read (a login never does: it
\* pushes its session before it filters)
Complete ==
  /\ flight.op # "none"
  /\ LET u == flight.user
         sid == randomUUID(u, nextId[u])
         access == Sign("access", u, sid, now)
         refresh == Sign("refresh", u, sid, now)
         list == FlightList(flight, NewSession(sid, refresh, now), now)
         r == RefreshResult(flight.doc, flight.tok, now)
         rotating == flight.op = "refresh" /\ r.ok
         notFound == flight.op = "terminateSession" /\ Len(list) = Len(flight.doc)
         changed == flight.op = "login" \/ list # flight.doc
         written == changed /\ ~flight.stale /\ ~notFound
         failed == \/ notFound
                   \/ changed /\ flight.stale
                   \/ flight.op = "refresh" /\ ~r.ok
     IN /\ sessions' = IF ~written THEN sessions
                       ELSE IF rotating
                            THEN [sessions EXCEPT ![u] =
                                    ElementWrite(@, FindRefreshSession(flight.doc, flight.tok),
                                                 r.refresh, now)]
                            ELSE [sessions EXCEPT ![u] = list]
        /\ loggedOut' = IF written /\ flight.op = "logout"
                        THEN loggedOut \cup LogoutTargets(flight.doc, flight.arg)
                        ELSE loggedOut
        /\ CASE flight.op = "login" ->
                /\ nextId' = [nextId EXCEPT ![u] = @ + 1]
                /\ issued' = IF failed THEN issued ELSE issued \cup {access, refresh}
                /\ res' = IF failed
                          THEN Res("login", u, NoSid, FALSE, NoTok, NoTok, NoTok)
                          ELSE [Res("login", u, sid, TRUE, access, refresh, NoTok)
                                  EXCEPT !.body = toJSON(list)]
             [] flight.op = "refresh" ->
                /\ issued' = IF failed THEN issued ELSE issued \cup {r.access, r.refresh}
                /\ res' = IF failed
                          THEN Res("refresh", u, flight.tok.sid, FALSE, NoTok, NoTok, flight.tok)
                          ELSE [Res("refresh", u, r.access.sid, TRUE, r.access, r.refresh,
                                    flight.tok)
                                  EXCEPT !.body = toJSON(r.list)]
                /\ UNCHANGED nextId
             [] OTHER ->
                /\ res' = [Res(flight.op, u, flight.arg,
                               IF flight.op = "logout"
                               THEN LogoutCatch(IF failed THEN "VersionError" ELSE "none") = "none"
                               ELSE ~failed,
                               NoTok, NoTok, NoTok)
                             EXCEPT !.body = IF flight.op = "getUserSessions" /\ ~failed
                                             THEN PlainSessions(list) ELSE <<>>]
                /\ UNCHANGED <<nextId, issued>>
  /\ flight' = NoFlight
  /\ UNCHANGED <<now, budget>>
  /\ revoked' = IF flight.op \in {"logout", "terminateSession", "terminateAllSessions"}
                 THEN revoked \cup Removed ELSE revoked
  /\ UNCHANGED <<swept, userSockets, socketToUser, sockets, userActive>>

NextConc ==
  \/ Next
  \/ \E op \in FlightOps \ {"refresh"}, u \in Users, arg \in KnownSids \cup {NoSid} :
        /\ (op \in {"login", "getUserSessions"} => arg = NoSid)
        /\ (op = "terminateSession" => arg # NoSid)
        /\ Begin(op, u, arg, NoTok)
  \/ \E tok \in issued : Begin("refresh", tok.sub, NoSid, tok)
  \/ Complete

SpecConc == Init /\ [][NextConc]_vars

\* What runs without a request: the clock.  The source has no caller and no
\* schedule for cleanupExpiredSessions (its comment asks for one), and the
\* purges in generateTokens, refreshToken and getUserSessions run only when
\* the identity makes that request, so none of these steps is fair.
SpecLive == Init /\ [][Next]_vars /\ WF_vars(Tick)

\* ================================================================= claims

\* C1: a session ended by logout(identity, S) or logout(identity) is rejected
\* by validateUser from then on, whatever logins and refreshes came before and
\* even while an access token issued for it is still unexpired.
C1_LoggedOutSessionRejected ==
  \A tok \in issued :
    tok.sid \in loggedOut => ~ValidateUser(sessions[tok.sub], tok.sub, tok.sid, now)

C1_Witness ==
  /\ res.op = "validate" /\ ~res.ok
  /\ res.sid \in loggedOut
  /\ Verify(res.used, "access", now)

\* C2: every successful login returns an access and a refresh token with the
\* same sessionId, and a session with that id is in the persisted list.
C2_LoginSessionPersisted ==
  (res.op = "login" /\ res.ok) =>
     /\ res.access.sid = res.refresh.sid
     /\ res.access.sid \in Ids(sessions[res.user])

\* C3: a successful refreshToken(R) rotates in place: both returned tokens
\* carry the id of the session R references, that session now stores the
\* returned refresh token, and the identity's session ids are unchanged.
C3_RefreshRotatesInPlace ==
  [][\A tok \in issued :
       (RefreshToken(tok) /\ res'.ok) =>
          /\ res'.access.sid = tok.sid /\ res'.refresh.sid = tok.sid
          /\ res'.access.kind = "access" /\ res'.refresh.kind = "refresh"
          /\ Ids(sessions'[tok.sub]) = Ids(sessions[tok.sub])
          /\ Len(sessions'[tok.sub]) = Len(sessions[tok.sub])
          /\ \A i \in 1..Len(sessions'[tok.sub]) :
               sessions'[tok.sub][i].id = tok.sid
                  => sessions'[tok.sub][i].refreshToken = res'.refresh]_vars

C3_Witness ==
  /\ res.op = "refresh" /\ res.ok
  /\ res.refresh # res.used
  /\ \E i \in 1..Len(sessions[res.user]) :
       sessions[res.user][i].id = res.sid /\ sessions[res.user][i].refreshToken = res.refresh

\* C4: once refreshToken(R1) has succeeded and returned a different token R2,
\* a further refreshToken(R1) fails and returns no tokens.
C4_SupersededRefreshRejected ==
  [][\A tok \in issued :
       ( /\ res.op = "refresh" /\ res.ok
         /\ res.used = tok /\ res.refresh # tok
         /\ RefreshToken(tok) ) => ~res'.ok]_vars

\* C5: a session whose expiresAt has passed is not usable, purged or not: for
\* every issued token whose session is gone or past its expiresAt,
\* validateUser rejects the payload and refreshToken returns no tokens.
C5_ExpiredSessionUnusable ==
  \A tok \in issued :
    (\A i \in 1..Len(sessions[tok.sub]) :
        sessions[tok.sub][i].id = tok.sid => sessions[tok.sub][i].expiresAt < now)
    => /\ ~ValidateUser(sessions[tok.sub], tok.sub, tok.sid, now)
       /\ ~RefreshResult(sessions[tok.sub], tok, now).ok

C5_Witness ==
  /\ res.op = "validate" /\ ~res.ok
  /\ res.user \in Users
  /\ \E i \in 1..Len(sessions[res.user]) :
       sessions[res.user][i].id = res.sid /\ sessions[res.user][i].expiresAt < now
  /\ \E tok \in issued : tok.sid = res.sid /\ Verify(tok, "refresh", now)

\* C6: in every reachable state, overlapping operations included, no
\* identity's persisted session list holds more than 10 sessions.
C6_SessionCeiling ==
  \A u \in Users : Len(sessions[u]) <= MaxSessions

C6_Witness ==
  /\ res.op = "login" /\ res.ok
  /\ nextId[res.user] > MaxSessions
  /\ Len(sessions[res.user]) = MaxSessions

\* C7: a login of an identity holding exactly 10 unexpired sessions evicts
\* exactly one session, one with the smallest lastActive, and leaves the 9
\* other previous sessions plus the new one.
C7_LoginEvictsLeastRecentlyActive ==
  [][\A u \in Users :
       ( /\ Login(u)
         /\ Len(sessions[u]) = MaxSessions
         /\ \A i \in 1..Len(sessions[u]) : sessions[u][i].expiresAt > now )
       => /\ Len(sessions'[u]) = MaxSessions
          /\ \E i \in 1..Len(sessions[u]) :
               /\ \A j \in 1..Len(sessions[u]) :
                    sessions[u][i].lastActive <= sessions[u][j].lastActive
               /\ Ids(sessions'[u])
                    = (Ids(sessions[u]) \ {sessions[u][i].id}) \cup {res'.sid}]_vars

\* C8: POST auth/logout with a token of session S ends S only: every other
\* session of the identity is still in the list afterwards.
C8_LogoutEndpointEndsCurrentOnly ==
  [][\A tok \in issued :
       (LogoutEndpoint(tok) /\ res'.ok) =>
          /\ tok.sid \notin Ids(sessions'[tok.sub])
          /\ \A i \in 1..Len(sessions[tok.sub]) :
               sessions[tok.sub][i].id # tok.sid =>
                 /\ \E j \in 1..Len(sessions'[tok.sub]) :
                      sessions'[tok.sub][j] = sessions[tok.sub][i]
                 /\ (ValidateUser(sessions[tok.sub], tok.sub, sessions[tok.sub][i].id, now)
                       => ValidateUser(sessions'[tok.sub], tok.sub, sessions[tok.sub][i].id, now))]_vars

\* C9: DELETE auth/sessions/all with a token of session S removes every other
\* session of the identity and keeps S, which still passes validateUser.
C9_TerminateAllEndpointKeepsCurrent ==
  [][\A tok \in issued :
       (TerminateAllEndpoint(tok) /\ res'.ok) =>
          /\ Ids(sessions'[tok.sub]) = {tok.sid}
          /\ ValidateUser(sessions'[tok.sub], tok.sub, tok.sid, now)]_vars

\* C10: terminateAllSessions(user, keepId) leaves exactly the session with id
\* keepId: every other session is removed and fails validateUser afterwards,
\* and keepId is kept as it was and passes validateUser if it did before.
C10_TerminateAllExceptKeepsOnlyKeepId ==
  [][\A u \in Users, keep \in KnownSids :
       TerminateAllSessions(u, keep) =>
          /\ \A j \in 1..Len(sessions'[u]) : sessions'[u][j].id = keep
          /\ \A i \in 1..Len(sessions[u]) :
               IF sessions[u][i].id = keep
               THEN \E j \in 1..Len(sessions'[u]) : sessions'[u][j] = sessions[u][i]
               ELSE ~ValidateUser(sessions'[u], u, sessions[u][i].id, now)
          /\ (ValidateUser(sessions[u], u, keep, now)
                => ValidateUser(sessions'[u], u, keep, now))]_vars

C10_Witness ==
  /\ res.op = "terminateAllSessions" /\ res.sid # NoSid
  /\ nextId[res.user] > 1
  /\ Ids(sessions[res.user]) = {res.sid}
  /\ ValidateUser(sessions[res.user], res.user, res.sid, now)
  /\ \E tok \in issued :
       tok.sub = res.user /\ tok.sid # res.sid /\ Verify(tok, "access", now)

\* C11: cleanupExpiredSessions removes, for every identity, exactly the
\* sessions whose expiresAt is earlier than now: every other session is kept
\* as it was, and an identity without such a session keeps its list as is.
C11_SweepRemovesExactlyExpired ==
  [][CleanupExpiredSessions =>
       \A u \in Users :
         LET kept == {i \in 1..Len(sessions[u]) : ~(sessions[u][i].expiresAt < now)}
         IN /\ Len(sessions'[u]) = Cardinality(kept)
            /\ \A i \in kept :
                 \E j \in 1..Len(sessions'[u]) : sessions'[u][j] = sessions[u][i]
            /\ \A j \in 1..Len(sessions'[u]) : ~(sessions'[u][j].expiresAt < now)
            /\ (kept = 1..Len(sessions[u]) => sessions'[u] = sessions[u])]_vars

C11_Witness ==
  /\ res.op = "cleanupExpiredSessions"
  /\ \E sid \in swept :
       /\ sid \notin Ids(sessions[sid[1]])
       /\ \E v \in Users \ {sid[1]} :
            sessions[v] # <<>> /\ \A i \in 1..Len(sessions[v]) : ~(sessions[v][i].expiresAt < now)

\* C12: logout(userId, sessionId?) returns normally whether the session
\* exists, is already gone, the identity does not exist or the save is
\* refused; a logout of an id that is not in the list leaves the list as it
\* is, and applying the same logout to its own result changes nothing.
C12_LogoutNeverFails ==
  [][/\ \A u \in Users \cup {UnknownUser}, sid \in KnownSids \cup {NoSid} :
          (res'.op = "logout" /\ Logout(u, sid)) =>
            /\ res'.ok
            /\ \A v \in Users \ {u} : sessions'[v] = sessions[v]
            /\ u \in Users =>
                 /\ (sid # NoSid /\ sid \notin Ids(sessions[u]))
                       => sessions'[u] = sessions[u]
                 /\ LogoutSessions(sessions'[u], sid) = sessions'[u]
     /\ (Complete /\ flight.op = "logout") => res'.ok]_vars

C12_Witness ==
  /\ res.op = "logout" /\ res.ok
  /\ res.user \in Users
  /\ res.sid # NoSid /\ res.sid \notin loggedOut
  /\ sessions[res.user] # <<>>

\* C13: when an operation of an identity is completed after another
\* operation of that identity ran between its read and its write, a login
\* that returned tokens has its session in the persisted list: the overtaken
\* login's own session, the session of the login that ran last before the
\* write, and the sessions logins added since the read.
C13_NoLoginLostUnderOverlap ==
  [][(Complete /\ res.op # "none" /\ res.user = flight.user) =>
       /\ (res'.op = "login" /\ res'.ok)
             => res'.sid \in Ids(sessions'[flight.user])
       /\ (res.op = "login" /\ res.ok)
             => res.sid \in Ids(sessions'[flight.user])
       /\ (Ids(sessions[flight.user]) \ Ids(flight.doc))
             \subseteq Ids(sessions'[flight.user])]_vars

C15_PresenceMapsConsistent ==
  /\ \A u \in DOMAIN userSockets : \A c \in userSockets[u] :
        c \in DOMAIN socketToUser /\ socketToUser[c] = u
  /\ \A c \in DOMAIN socketToUser :
        socketToUser[c] \in DOMAIN userSockets /\ c \in userSockets[socketToUser[c]]

C15_Witness ==
  /\ Cardinality(DOMAIN userSockets) = 2
  /\ Cardinality(DOMAIN socketToUser) = 2

\* C16: for every identity, getUserConnectionCount is the number of its
\* sockets accepted and not yet disconnected, isUserConnected holds exactly
\* when that number is at least 1 and exactly when the identity is in
\* getConnectedUserIds, and userSockets holds no empty set.
C16_ConnectionCountExact ==
  /\ \A u \in Users \cup DOMAIN userSockets :
        LET live == {n \in 1..Len(sockets) :
                       sockets[n].state = "accepted" /\ sockets[n].user = u}
        IN /\ getUserConnectionCount(userSockets, u) = Cardinality(live)
           /\ isUserConnected(userSockets, u) <=> Cardinality(live) >= 1
           /\ isUserConnected(userSockets, u) <=> u \in getConnectedUserIds(userSockets)
  /\ \A u \in DOMAIN userSockets : userSockets[u] # {}

C16_Witness ==
  \E n, m \in 1..Len(sockets) :
    /\ sockets[n].state = "closed" /\ sockets[m].state = "closed" /\ n # m
    /\ sockets[n].user \in Users /\ sockets[m].user = sockets[n].user
    /\ ~isUserConnected(userSockets, sockets[n].user)
    /\ sockets[n].user \notin getConnectedUserIds(userSockets)

\* C17: handleDisconnect of a socket leaves its id in neither map and the
\* entries of every other socket as they were; for a socket that was never
\* registered both maps stay as they are, and no error is raised.
C17_DisconnectUnregisters ==
  [][\A n \in 1..Len(sockets) :
       handleDisconnect(n) =>
         LET c == sockets[n].id
             SetOf(us, u) == IF u \in DOMAIN us THEN us[u] ELSE {}
         IN /\ res'.ok
            /\ c \notin DOMAIN socketToUser'
            /\ \A u \in DOMAIN userSockets' : c \notin userSockets'[u]
            /\ DOMAIN socketToUser' = DOMAIN socketToUser \ {c}
            /\ \A d \in DOMAIN socketToUser' : socketToUser'[d] = socketToUser[d]
            /\ \A u \in Users \cup DOMAIN userSockets :
                 SetOf(userSockets', u) = SetOf(userSockets, u) \ {c}
            /\ c \notin DOMAIN socketToUser =>
                 userSockets' = userSockets /\ socketToUser' = socketToUser]_vars

C17_Witness ==
  \E n, m \in 1..Len(sockets) :
    /\ res.op = "handleDisconnect"
    /\ sockets[n].state = "closed" /\ sockets[n].user \in Users
    /\ sockets[n].id \notin DOMAIN socketToUser
    /\ sockets[m].state = "accepted"
    /\ sockets[m].id \in DOMAIN socketToUser
    /\ sockets[m].id \in userSockets[sockets[m].user]

\* C18: a handshake with no token, with a token that does not verify as an
\* access token at that instant, or with a payload without sub is answered
\* with an error event and a disconnect, and leaves both maps as they were.
C18_RejectedHandshakeNotRegistered ==
  [][\A tok \in issued \cup {NoTok, NoSubTok} :
       ( /\ handleConnection(tok)
         /\ (tok = NoTok \/ ~Verify(tok, "access", now) \/ tok.sub = NoUser) )
       => /\ userSockets' = userSockets
          /\ socketToUser' = socketToUser
          /\ sockets'[Len(sockets')].event = "error"
          /\ sockets'[Len(sockets')].state = "rejected"
          /\ ~res'.ok]_vars

C18_Witness ==
  \E n, m \in 1..Len(sockets) :
    /\ n < m
    /\ sockets[n].state = "accepted" /\ sockets[n].id \in DOMAIN socketToUser
    /\ sockets[m].state = "rejected" /\ sockets[m].event = "error"
    /\ sockets[m].token.kind = "refresh"
    /\ sockets[m].id \notin DOMAIN socketToUser

\* C19: a connection is accepted and registered only if its token verifies
\* as an access token and validateUser accepts the session it references at
\* the instant of the handshake.
C19_HandshakeRequiresLiveSession ==
  [][\A tok \in issued \cup {NoTok, NoSubTok} :
       (handleConnection(tok) /\ socketToUser' # socketToUser)
       => Authenticated(sessions[tok.sub], tok, now)]_vars

\* C20: sendNotificationToUser(u) emits exactly when some registered socket
\* belongs to u; it raises nothing and leaves the registry and every other
\* part of the state as it was.
C20_SendOnlyToConnected ==
  [][\A u \in Users :
       sendNotificationToUser(u) =>
         /\ res'.ok <=> (\E c \in DOMAIN socketToUser : socketToUser[c] = u)
         /\ UNCHANGED <<userSockets, socketToUser, sockets, sessions, issued>>]_vars

C20_Witness ==
  /\ res.op = "sendNotificationToUser" /\ ~res.ok
  /\ \A c \in DOMAIN socketToUser : socketToUser[c] # res.user
  /\ DOMAIN socketToUser # {}

\* the session a token references is in its identity's list, active and not
\* past its expiresAt
LiveSession(tok) ==
  /\ tok.sub \in Users
  /\ \E i \in 1..Len(sessions[tok.sub]) :
       /\ sessions[tok.sub][i].id = tok.sid
       /\ sessions[tok.sub][i].isActive
       /\ sessions[tok.sub][i].expiresAt >= now

\* C21: a request on a protected route goes on exactly when it carries a
\* token that verifies as an access token, its identity exists and is
\* active, and its session is live; otherwise it ends with Unauthorized and
\* no identity attached.  The identity attached has userId, id and sub equal
\* to the token's subject and sessionId equal to the token's sessionId.
C21_ProtectedRouteAuthorization ==
  [][\A tok \in issued \cup {NoTok} :
       (res'.op = "validate" /\ Authenticate(tok, FALSE)) =>
         LET valid == /\ tok # NoTok
                      /\ tok.kind = "access" /\ now < tok.exp
                      /\ tok.sub \in Users /\ userActive[tok.sub]
                      /\ LiveSession(tok)
         IN /\ res'.ok <=> valid
            /\ res'.guard.status = (IF valid THEN "continue" ELSE "Unauthorized")
            /\ ~valid => res'.guard.user = NoIdentity
            /\ valid => /\ res'.guard.user.userId = tok.sub
                        /\ res'.guard.user.id = tok.sub
                        /\ res'.guard.user.sub = tok.sub
                        /\ res'.guard.user.sessionId = tok.sid]_vars

C21_Witness ==
  /\ res.op = "validate" /\ res.ok
  /\ res.guard.user.userId = res.used.sub
  /\ res.guard.user.sessionId = res.used.sid
  /\ \E tok \in issued :
       /\ tok.kind = "access" /\ tok.sub = res.user
       /\ Guard(sessions[tok.sub], tok, now, FALSE).status = "Unauthorized"

\* C22: a request on a route marked public always goes on: without a token,
\* with a token that does not verify or with one whose session is not valid
\* no identity is attached, and with a valid token of a live session the
\* token's identity is attached.
C22_PublicRouteNeverFails ==
  [][\A tok \in issued \cup {NoTok} :
       (res'.op = "validateOptional" /\ Authenticate(tok, TRUE)) =>
         /\ res'.guard.status = "continue"
         /\ res'.guard.user =
              (IF tok # NoTok /\ Authenticated(SessionsOf(tok.sub), tok, now)
               THEN NormalizedUser(tok) ELSE NoIdentity)]_vars

C22_Witness ==
  /\ res.op = "validateOptional" /\ ~res.ok
  /\ res.guard.status = "continue" /\ res.guard.user = NoIdentity
  /\ Verify(res.used, "access", now)
  /\ res.used.sid \in loggedOut

\* C23: two requests on a protected route that both fail, whatever the cause
\* (a token signed with another secret, an expired token, a session that
\* was ended or has expired), get the same status and the same message.
C23_UnauthorizedUniform ==
  \A tok \in issued :
    ( /\ res.op = "validate" /\ ~res.ok /\ res.used # NoTok
      /\ Guard(sessions[tok.sub], tok, now, FALSE).status = "Unauthorized" )
    => /\ Guard(sessions[tok.sub], tok, now, FALSE).status = res.guard.status
       /\ Guard(sessions[tok.sub], tok, now, FALSE).message = res.guard.message

\* C24: a refresh token is accepted neither by the guard of a protected
\* route nor by the gateway's handshake, and an access token is not accepted
\* by refreshToken, also while the token is unexpired and its session live;
\* the rejected call changes neither the sessions nor the registry.
C24_TokenKindsNotInterchangeable ==
  [][\A tok \in issued :
       /\ (tok.kind = "refresh" /\ Authenticate(tok, FALSE))
             => ~res'.ok /\ res'.guard.status = "Unauthorized"
       /\ (tok.kind = "refresh" /\ handleConnection(tok))
             => /\ ~res'.ok
                /\ userSockets' = userSockets /\ socketToUser' = socketToUser
       /\ (tok.kind = "access" /\ RefreshToken(tok))
             => /\ ~res'.ok /\ res'.access = NoTok /\ res'.refresh = NoTok
                /\ sessions' = sessions /\ issued' = issued]_vars

C24_Witness ==
  /\ res.op = "refresh" /\ ~res.ok
  /\ res.used.kind = "access" /\ now < res.used.exp
  /\ LiveSession(res.used)
  /\ \E tok \in issued :
       /\ tok.kind = "refresh" /\ tok.sid = res.used.sid /\ now < tok.exp
       /\ Guard(sessions[tok.sub], tok, now, FALSE).status = "Unauthorized"
       /\ HandshakeError(tok, now) # "none"

\* C25: no session record in the body of a response carries a refresh
\* token: not in the list getUserSessions returns, and not in the identity
\* summary returned with the tokens by a login, a registration or a refresh.
C25_RefreshTokenNotListed ==
  \A i \in 1..Len(res.body) :
    "refreshToken" \in DOMAIN res.body[i] => res.body[i].refreshToken = NoTok

C25_Witness ==
  /\ res.op = "getUserSessions"
  /\ Len(res.body) >= 1
  /\ \A i \in 1..Len(res.body) :
       \E j \in 1..Len(sessions[res.user]) :
         /\ sessions[res.user][j].id = res.body[i].id
         /\ sessions[res.user][j].refreshToken \in issued
  /\ \E tok \in issued : tok.kind = "refresh" /\ tok.iat > 0

\* C26: while an identity is deactivated, every request on a protected route
\* and every refreshToken call with a token of that identity fails, also
\* when the token verifies and its session is present and unexpired, and
\* neither call changes a session list.
C26_DeactivatedNeverAuthorized ==
  [][\A tok \in issued :
       ~userActive[tok.sub] =>
         /\ Authenticate(tok, FALSE)
               => /\ ~res'.ok /\ res'.guard.status = "Unauthorized"
                  /\ sessions' = sessions
         /\ RefreshToken(tok)
               => /\ ~res'.ok /\ res'.access = NoTok /\ res'.refresh = NoTok
                  /\ sessions' = sessions /\ issued' = issued]_vars

C26_Witness ==
  /\ res.op = "refresh" /\ ~res.ok
  /\ ~userActive[res.user]
  /\ Verify(res.used, "refresh", now)
  /\ LiveSession(res.used)

\* C27: a refreshToken call with the refresh token issued last for its
\* session, made before that token's expiry by an active identity whose
\* session was not ended by a logout, a termination or the ceiling,
\* succeeds, however many refreshes came before.
C27_RefreshChainUnbounded ==
  [][\A tok \in issued :
       ( /\ RefreshToken(tok)
         /\ Verify(tok, "refresh", now)
         /\ userActive[tok.sub]
         /\ tok.sid \notin revoked \cup loggedOut
         /\ nextId[tok.sub] <= MaxSessions
         /\ \A last \in issued :
              (last.kind = "refresh" /\ last.sid = tok.sid) => last.iat <= tok.iat )
       => res'.ok]_vars

\* C28: a request that goes through validateUser, accepted or rejected,
\* leaves every identity's persisted session list as it was: the same
\* sessions with the same stored tokens, lastActive and expiresAt.
C28_ValidateUserReadOnly ==
  [][\A tok \in issued \cup {NoTok}, isPublic \in BOOLEAN :
       (res'.used = tok /\ Authenticate(tok, isPublic)) =>
         /\ sessions' = sessions
         /\ userActive' = userActive /\ flight' = flight]_vars

C28_Witness ==
  /\ res.op = "validate" /\ res.ok
  /\ Verify(res.used, "access", now)
  /\ \E i \in 1..Len(sessions[res.user]) :
       /\ sessions[res.user][i].id = res.sid
       /\ sessions[res.user][i].expiresAt = now
       /\ sessions[res.user][i].lastActive = now

ExpiredPersisted(u) ==
  \E i \in 1..Len(sessions[u]) : sessions[u][i].expiresAt < now

\* C30: a session that is persisted past its expiresAt is eventually
\* removed from its identity's list, whether or not the identity logs in,
\* refreshes or lists its sessions again.
C30_ExpiredEventuallyRemoved ==
  \A u \in Users : ExpiredPersisted(u) ~> ~ExpiredPersisted(u)

\* C31: an accepted handshake registers the socket under the token's
\* identity in both maps, joins it to the identity's room and to the room of
\* the role the token carries, and answers with a 'connected' event whose
\* userId is that identity and whose activeConnections is the number of
\* sockets registered for the identity at that moment, this one included.
C31_AcceptedHandshakeAcknowledged ==
  [][\A tok \in issued \cup {NoTok, NoSubTok} :
       (res'.op = "handleConnection" /\ res'.ok /\ handleConnection(tok)) =>
         LET s == sockets'[Len(sockets')]
             u == tok.sub
         IN /\ s.id \notin DOMAIN socketToUser
            /\ s.id \in DOMAIN socketToUser' /\ socketToUser'[s.id] = u
            /\ u \in DOMAIN userSockets' /\ s.id \in userSockets'[u]
            /\ <<"user", u>> \in s.rooms
            /\ TokenRole(tok) # NoRole => <<"role", TokenRole(tok)>> \in s.rooms
            /\ s.event = "connected" /\ s.user = u
            /\ s.activeConnections =
                  Cardinality({c \in DOMAIN socketToUser' : socketToUser'[c] = u})
            /\ s.activeConnections >= 1]_vars

C31_Witness ==
  /\ res.op = "handleConnection" /\ res.ok
  /\ Len(sockets) = 2
  /\ sockets[2].event = "connected" /\ sockets[2].activeConnections = 2
  /\ sockets[1].user = sockets[2].user /\ sockets[1].state = "accepted"
  /\ <<"role", RoleOf(sockets[2].user)>> \in sockets[2].rooms

\* C32: in every reachable state, overlapping operations included, no
\* identity's persisted list holds two sessions with the same id.
C32_SessionIdsUnique ==
  \A u \in Users :
    \A i, j \in 1..Len(sessions[u]) :
      (sessions[u][i].id # NoSid /\ sessions[u][i].id = sessions[u][j].id) => i = j

C32_Witness ==
  /\ res.op = "refresh" /\ res.ok
  /\ Len(sessions[res.user]) >= 3
  /\ revoked \cup swept # {}

\* the list without its element at position idx
WithoutIndex(ss, idx) ==
  [i \in 1..(Len(ss) - 1) |-> IF i < idx THEN ss[i] ELSE ss[i + 1]]

\* C33: a refreshToken call that fails returns no tokens; it leaves the
\* persisted lists as they were when the token does not verify, the identity
\* is missing or inactive, or no active session matches, and it leaves the
\* identity's list without exactly the matched session, and every other list
\* as it was, when the matched session is past its expiresAt.
C33_FailedRefreshState ==
  [][\A tok \in issued :
       (res'.op = "refresh" /\ ~res'.ok /\ RefreshToken(tok)) =>
         LET u == tok.sub
             ss == SessionsOf(u)
             idx == FindRefreshSession(ss, tok)
             usable == Verify(tok, "refresh", now) /\ u \in Users /\ userActive[u]
         IN /\ res'.access = NoTok /\ res'.refresh = NoTok
            /\ issued' = issued
            /\ (~usable \/ idx = 0) => sessions' = sessions
            /\ (usable /\ idx # 0) =>
                 /\ ss[idx].expiresAt < now
                 /\ sessions'[u] = WithoutIndex(ss, idx)
                 /\ \A v \in Users \ {u} : sessions'[v] = sessions[v]]_vars

\* a failed refresh took an expired session out of a list that holds others
C33_Witness ==
  /\ res.op = "refresh" /\ ~res.ok
  /\ Verify(res.used, "refresh", now)
  /\ res.sid \notin Ids(sessions[res.user])
  /\ res.sid \notin swept \cup revoked \cup loggedOut
  /\ sessions[res.user] # <<>>
  \* no login came late enough to purge it
  /\ \E first \in issued :
       /\ first.sid = res.sid /\ first.kind = "refresh"
       /\ \A i \in 1..Len(sessions[res.user]) :
            sessions[res.user][i].createdAt < first.iat + RefreshTTL

\* C34: two refreshToken calls on the same session, one of which reads the
\* identity, is overtaken by the whole of the other and then writes: while
\* the session is not past its expiresAt and nothing was swept, the identity
\* ends with exactly one session of that id, which stores the refresh token
\* one of the two calls returned, and each call either failed without tokens
\* or returned tokens that carry that id.
C34_RacingRefreshesConverge ==
  [][( /\ flight.op = "refresh" /\ res.op = "refresh"
       /\ res.user = flight.user /\ res.used.sid = flight.tok.sid
       /\ swept = {}
       /\ \E i \in 1..Len(flight.doc) :
            /\ flight.doc[i].id = flight.tok.sid /\ flight.doc[i].isActive
            /\ ~(flight.doc[i].expiresAt < now)
       /\ Complete )
     => LET u == flight.user
            S == flight.tok.sid
            at == {i \in 1..Len(sessions'[u]) : sessions'[u][i].id = S}
            returned == {r.refresh : r \in {x \in {res, res'} : x.ok}}
        IN /\ Cardinality(at) = 1
           /\ \A i \in at : returned # {} => sessions'[u][i].refreshToken \in returned
           /\ \A r \in {res, res'} :
                IF r.ok
                THEN r.access.sid = S /\ r.refresh.sid = S
                ELSE r.access = NoTok /\ r.refresh = NoTok]_vars

\* the race is on: one call holds the document it read, the other has since
\* rotated the same session at a later instant and returned, and the session
\* is not past its expiresAt; the first call's write is the next step it takes
C34_Witness ==
  /\ flight.op = "refresh" /\ ~flight.stale
  /\ res.op = "refresh" /\ res.ok
  /\ res.user = flight.user /\ res.sid = flight.tok.sid
  /\ swept = {}
  /\ \E i \in 1..Len(flight.doc) :
       /\ flight.doc[i].id = res.sid
       /\ flight.doc[i].lastActive < now
       /\ ~(flight.doc[i].expiresAt < now)
       /\ i <= Len(sessions[res.user])
       /\ sessions[res.user][i].id = res.sid
       /\ sessions[res.user][i].refreshToken = res.refresh
       /\ sessions[res.user][i].refreshToken # flight.doc[i].refreshToken

\* the fields of a session that a refresh assigns
RefreshedFields == {"refreshToken", "lastActive"}

\* C35: a successful refreshToken leaves the list as long as it was, every
\* session other than the matched one as it was, field by field, and of the
\* matched session every field but refreshToken and lastActive (id, isActive,
\* createdAt, expiresAt); the lists of the other identities are untouched.
C35_RefreshFrame ==
  [][\A tok \in issued :
       (res'.op = "refresh" /\ res'.ok /\ RefreshToken(tok)) =>
         LET u == tok.sub
             idx == FindRefreshSession(sessions[u], tok)
         IN /\ idx # 0
            /\ Len(sessions'[u]) = Len(sessions[u])
            /\ \A i \in 1..Len(sessions[u]) :
                 /\ DOMAIN sessions'[u][i] = DOMAIN sessions[u][i]
                 /\ \A f \in DOMAIN sessions[u][i] :
                      (i # idx \/ f \notin RefreshedFields)
                         => sessions'[u][i][f] = sessions[u][i][f]
            /\ \A v \in Users \ {u} : sessions'[v] = sessions[v]]_vars

\* a later refresh of one of several sessions: the token and lastActive moved,
\* createdAt and expiresAt are those of the login
C35_Witness ==
  /\ res.op = "refresh" /\ res.ok /\ res.refresh # res.used
  /\ Len(sessions[res.user]) >= 2
  /\ \E i \in 1..Len(sessions[res.user]) :
       LET s == sessions[res.user][i]
       IN /\ s.id = res.sid /\ s.refreshToken = res.refresh
          /\ s.lastActive = now /\ s.createdAt < now
          /\ s.expiresAt = s.createdAt + RefreshTTL

\* the session ids a step adds to the list of identity u
Gained(u) == Ids(sessions'[u]) \ Ids(sessions[u])

\* C36: a step adds a session id to an identity's list only if it is a
\* successful login of that identity, and then it adds exactly one id, the
\* one the login returns in its tokens, which was never used before;
\* refreshToken, validateUser, logout, getUserSessions, terminateSession,
\* terminateAllSessions and cleanupExpiredSessions add none.
C36_SessionsCreatedOnlyByLogin ==
  [][\A u \in Users :
       /\ Gained(u) # {} =>
            /\ res'.op = "login" /\ res'.ok /\ res'.user = u
            /\ Gained(u) = {res'.sid}
            /\ res'.access.sid = res'.sid /\ res'.refresh.sid = res'.sid
            /\ res'.sid \notin KnownSids
            /\ nextId'[u] = nextId[u] + 1
       /\ res'.op \in {"refresh", "validate", "validateOptional", "logout",
                        "logoutEndpoint", "getUserSessions", "terminateSession",
                        "terminateAllSessions", "terminateAllEndpoint",
                        "cleanupExpiredSessions"}
            => Gained(u) = {}]_vars

\* a login added its session to a list that a refresh, a validation and a
\* removal had left with the ids it had
C36_Witness ==
  /\ res.op = "login" /\ res.ok
  /\ res.sid \in Ids(sessions[res.user])
  /\ Len(sessions[res.user]) >= 2
  /\ \E tok \in issued : tok.kind = "refresh" /\ tok.sid # res.sid /\ tok.iat > 0
                          /\ tok.sub = res.user

\* C37: terminateSession(user, sessionId) takes exactly the session with
\* that id out of the caller's list, leaving every other session of the list
\* and every other identity's list as they were; when the caller's list has
\* no session with that id, a session of another identity included, it
\* fails (NotFound) and every list is as it was.
C37_TerminateSessionExact ==
  [][\A u \in Users, sid \in KnownSids :
       (res'.op = "terminateSession" /\ TerminateSession(u, sid)) =>
         LET idx == FirstIndex({i \in 1..Len(sessions[u]) : sessions[u][i].id = sid})
         IN /\ \A v \in Users \ {u} : sessions'[v] = sessions[v]
            /\ IF idx # 0
               THEN /\ res'.ok
                    /\ sessions'[u] = WithoutIndex(sessions[u], idx)
                    /\ sid \notin Ids(sessions'[u])
               ELSE /\ ~res'.ok
                    /\ sessions'[u] = sessions[u]]_vars

\* one of two sessions was terminated and the other is still there
C37_Witness ==
  /\ res.op = "terminateSession" /\ res.ok
  /\ res.sid \in revoked
  /\ res.sid \notin Ids(sessions[res.user])
  /\ Len(sessions[res.user]) = 1
  /\ nextId[res.user] = 2

\* refreshToken, fallback lookup: the session whose stored token is the
\* presented one (0: none)
FallbackIndex(ss, tok) ==
  FirstIndex({i \in 1..Len(ss) : ss[i].refreshToken = tok /\ ss[i].isActive})

\* C38: in every reachable state, overlapping operations included, the
\* refresh token stored in a session of identity u is a refresh token the
\* service issued for that session's id and for u; so the session that the
\* lookup by token value selects for a presented token has the id the
\* token carries.
C38_StoredTokenBinding ==
  \A u \in Users :
    /\ \A i \in 1..Len(sessions[u]) :
         LET s == sessions[u][i]
         IN /\ s.refreshToken \in issued
            /\ s.refreshToken.kind = "refresh"
            /\ s.refreshToken.sid = s.id
            /\ s.refreshToken.sub = u
    /\ \A tok \in issued :
         FallbackIndex(sessions[u], tok) # 0
            => sessions[u][FallbackIndex(sessions[u], tok)].id = tok.sid

\* C39: a purge takes a session out of a list only if validateUser rejects
\* that session at the same instant, the instant now = expiresAt included:
\* every session that getUserSessions, cleanupExpiredSessions or a login
\* below the ceiling removes is one validateUser no longer accepts.
C39_PurgesAgreeWithValidateUser ==
  [][\A u \in Users :
       ( \/ res'.op \in {"getUserSessions", "cleanupExpiredSessions"}
         \/ res'.op = "login" /\ Len(sessions[u]) < MaxSessions )
       => \A i \in 1..Len(sessions[u]) :
            sessions[u][i].id \notin Ids(sessions'[u])
               => ~ValidateUser(sessions[u], u, sessions[u][i].id, now)]_vars

\* the operations a request performs for one identity
IdentityOps == {"login", "refresh", "validate", "validateOptional", "logout",
                "logoutEndpoint", "getUserSessions", "terminateSession",
                "terminateAllSessions", "terminateAllEndpoint"}

\* a payload or a refresh token whose subject is one identity and whose
\* sessionId is the id of a session of another is rejected by validateUser
\* and by refreshToken, whenever it was signed
ForeignSessionRejected ==
  \A u \in Users :
    \A v \in Users \ {u} :
      \A i \in 1..Len(sessions[v]) :
        LET sid == sessions[v][i].id
        IN /\ ~ValidateUser(sessions[u], u, sid, now)
           /\ \A t \in 0..now :
                ~RefreshResult(sessions[u], Sign("refresh", u, sid, t), now).ok

\* C40: a login, refreshToken, logout, getUserSessions, terminateSession or
\* terminateAllSessions performed for one identity, overtaken or not, leaves
\* the list of every other identity as it was; and in the state it leaves, a
\* session id of an identity V is accepted neither by validateUser nor by
\* refreshToken for a payload or token whose subject is another identity U.
C40_CrossIdentityIsolation ==
  [][/\ (res'.op \in IdentityOps /\ res'.user \in Users)
          => \A v \in Users \ {res'.user} : sessions'[v] = sessions[v]
     /\ ForeignSessionRejected']_vars

\* terminateAllSessions of one identity, asked to keep a session id of the
\* other: its own list is emptied and the other's session is still there
C40_Witness ==
  /\ res.op = "terminateAllSessions" /\ res.user \in Users
  /\ nextId[res.user] > 0 /\ sessions[res.user] = <<>>
  /\ \E v \in Users \ {res.user} :
       /\ res.sid \in Ids(sessions[v])
       /\ ValidateUser(sessions[v], v, res.sid, now)

====
